---- MODULE Spec2Model ----
(***************************************************************************)
(* The Obsidian MCP server (src/obsidian_mcp_server.py) as a state machine. *)
(*                                                                         *)
(* A Python str is a sequence of TLA+ strings.  Text the code inspects     *)
(* (titles, file names, folder names, templates) is split into single      *)
(* characters, except that a template's field name is one element; a       *)
(* literal the code only copies may be one element.  No element other than *)
(* "/" contains a path separator.  An optional value (Python None, a key   *)
(* missing from a mapping) is the record None; Some(x) is a present value. *)
(* A path is the sequence of its segments below the vault root, so <<>> is *)
(* the vault root itself.                                                  *)
(***************************************************************************)
EXTENDS Integers, Sequences, FiniteSets, TLC

VARIABLES
    dirs,       \* the directories that exist at or below the vault root
    files,      \* path -> text of every file below the vault root
    cfg,        \* cfg[i]: .claude/obsidian.json of the i-th directory of [cwd] + cwd.parents
    now,        \* the latest second a handler has read from the clock
    errs,       \* the isError flag of every response sent so far, oldest first
    serverUp,   \* the server process is running
    request,    \* the tool call handled last
    result,     \* the CallToolResult returned for it
    config      \* the config the last _save_to_obsidian resolved

vars == <<dirs, files, cfg, now, errs, serverUp, request, result, config>>

----------------------------------------------------------------------------
(* Bounds of the model. *)

MaxCalls == 2
MaxTime == 1
MaxTitleLen == 2
MaxContentLen == 3
MaxTemplateLen == 4
MaxTags == 2
MaxDepth == 3

----------------------------------------------------------------------------
(* Python values and str helpers. *)

None == [some |-> FALSE, v |-> <<>>]
Some(x) == [some |-> TRUE, v |-> x]

\* str(x) as str.format and the f-strings apply it: None prints as "None".
Str(x) == IF x.some THEN x.v ELSE <<"N", "o", "n", "e">>

Digits == <<"0", "1", "2", "3", "4", "5", "6", "7", "8", "9">>
UpperChars == {"C", "N", "P", "T", "X"}
LowerChars == {"a", "b", "c", "d", "e", "h", "j", "l", "m", "n", "o", "p", "q", "r", "t", "u", "x"}
Whitespace == {" ", "\t"}

\* str.isalnum of one character
IsAlnum(c) == c \in UpperChars \cup LowerChars \cup {Digits[i] : i \in 1..10}

\* str.lower of one character, then of a str
LowerChar(c) ==
    CASE c = "C" -> "c" [] c = "N" -> "n" [] c = "P" -> "p" [] c = "T" -> "t"
      [] c = "X" -> "x" [] OTHER -> c
Lower(s) == [i \in 1..Len(s) |-> LowerChar(s[i])]

RECURSIVE RStrip(_)
RStrip(s) ==
    IF s # <<>> /\ s[Len(s)] \in Whitespace THEN RStrip(SubSeq(s, 1, Len(s) - 1)) ELSE s

RECURSIVE Filter(_, _)
Filter(s, keep) ==
    IF s = <<>> THEN <<>>
    ELSE (IF s[1] \in keep THEN <<s[1]>> ELSE <<>>) \o Filter(Tail(s), keep)

EndsWith(s, suffix) ==
    /\ Len(s) >= Len(suffix)
    /\ SubSeq(s, Len(s) - Len(suffix) + 1, Len(s)) = suffix

MD == <<".", "m", "d">>

\* The characters of file and folder names in code point order, for sorted().
CharOrder ==
    <<"\t", " ", "'", "-", ".", "0", "1", "2", "3", "4", "5", "6", "7", "8", "9", ":",
      "C", "N", "P", "T", "X", "[", "]", "_", "a", "b", "c", "d", "e", "h", "j", "l",
      "m", "n", "o", "p", "q", "r", "t", "u", "x", "{", "}">>
Rank(c) == CHOOSE i \in 1..Len(CharOrder) : CharOrder[i] = c

RECURSIVE Less(_, _)
Less(a, b) ==
    IF b = <<>> THEN FALSE
    ELSE IF a = <<>> THEN TRUE
    ELSE IF a[1] = b[1] THEN Less(Tail(a), Tail(b))
    ELSE Rank(a[1]) < Rank(b[1])

\* A sort of a set of sibling paths into descending order.
RECURSIVE SortedDescending(_)
SortedDescending(S) ==
    IF S = {} THEN <<>>
    ELSE LET m == CHOOSE x \in S : \A y \in S \ {x} : Less(y[Len(y)], x[Len(x)])
         IN  <<m>> \o SortedDescending(S \ {m})

\* sorted() of a set of sibling paths
RECURSIVE Sorted(_)
Sorted(S) ==
    IF S = {} THEN <<>>
    ELSE LET m == CHOOSE x \in S : \A y \in S \ {x} : Less(x[Len(x)], y[Len(y)])
         IN  <<m>> \o Sorted(S \ {m})

TwoDigits(n) == <<Digits[(n \div 10) + 1], Digits[(n % 10) + 1]>>

\* datetime.strftime("%Y-%m-%d %H:%M:%S"), strftime("%Y%m%d_%H%M%S") and isoformat()
\* of second t of the modelled day
StrftimeHuman(t) == <<"2024-01-01 00:00:">> \o TwoDigits(t)
StrftimePrefix(t) ==
    <<"2", "0", "2", "4", "0", "1", "0", "1", "_", "0", "0", "0", "0">> \o TwoDigits(t)
IsoFormat(t) == <<"2024-01-01T00:00:">> \o TwoDigits(t)

\* The literal list representation f"{tags}" prints: ['a', 'b']
RECURSIVE ReprItems(_)
ReprItems(tags) ==
    IF tags = <<>> THEN <<>>
    ELSE <<"'">> \o tags[1] \o <<"'">>
         \o (IF Len(tags) > 1 THEN <<", ">> ELSE <<>>) \o ReprItems(Tail(tags))
ReprList(tags) == <<"[">> \o ReprItems(tags) \o <<"]">>

----------------------------------------------------------------------------
(* pathlib and the filesystem below the vault root. *)

\* The segments of a relative path string: split at "/", empty and "." segments dropped.
RECURSIVE Segments(_, _)
Segments(s, cur) ==
    LET done == IF cur = <<>> \/ cur = <<".">> THEN <<>> ELSE <<cur>>
    IN  IF s = <<>> THEN done
        ELSE IF s[1] = "/" THEN done \o Segments(Tail(s), <<>>)
        ELSE Segments(Tail(s), Append(cur, s[1]))

\* base / s
Join(base, s) == base \o Segments(s, <<>>)

Prefixes(p) == {SubSeq(p, 1, k) : k \in 0..Len(p)}
Parent(p) == SubSeq(p, 1, Len(p) - 1)

\* Path.mkdir(parents=True, exist_ok=True): raises when p or an ancestor is a file.
MkdirRaises(fs, p) == \E q \in Prefixes(p) : q \in DOMAIN fs
MkdirDirs(ds, p) == ds \cup Prefixes(p)

\* open(p, "w") then write: raises when the parent is no directory or p is one.
OpenRaises(ds, p) == p = <<>> \/ Parent(p) \notin ds \/ p \in ds
\* A write that opens the file for appending.
WriteFileAppend(fs, p, text) ==
    [q \in DOMAIN fs \cup {p} |->
        IF q # p THEN fs[q] ELSE IF p \in DOMAIN fs THEN fs[p] \o text ELSE text]

WriteFile(fs, p, text) == [q \in DOMAIN fs \cup {p} |-> IF q = p THEN text ELSE fs[q]]

NoFiles == [q \in {} |-> <<>>]

----------------------------------------------------------------------------
(* Project configuration: .claude/obsidian.json along [cwd] + cwd.parents. *)

NoTemplates == [t \in {} |-> <<>>]

\* What a .claude/obsidian.json can be.  kind: "absent" (no such file), "invalid"
\* (open or json.load raises), "array" (valid JSON that is no object), "object".
\* tkind says what the object's "templates" is: "missing", "null" or a "map".
ConfigFile(kind, folder, tkind, templates) ==
    [kind |-> kind, folder |-> folder, tkind |-> tkind, templates |-> templates]
Absent == ConfigFile("absent", None, "missing", NoTemplates)
Invalid == ConfigFile("invalid", None, "missing", NoTemplates)
JsonArray == ConfigFile("array", None, "missing", NoTemplates)
Object(folder, tkind, templates) == ConfigFile("object", folder, tkind, templates)

Field(name) == <<"{", name, "}">>
ClaudeCode == <<"C", "l", "a", "u", "d", "e", " ", "C", "o", "d", "e">>

DefaultConfig ==
    Object(Some(ClaudeCode), "map",
           [t \in {"report", "review"} |->
               (IF t = "report" THEN <<"## ">> ELSE <<"## Code Review: ">>)
               \o Field("title") \o <<"\n\n**Generated:** ">> \o Field("timestamp")
               \o <<"\n**Project:** ">> \o Field("project") \o <<"\n\n">>
               \o Field("content")])

\* The loop over [current_path] + parents: the first file that exists is loaded;
\* any exception gives the default.
RECURSIVE WalkConfig(_, _)
WalkConfig(chain, i) ==
    IF i > Len(chain) THEN DefaultConfig
    ELSE IF chain[i].kind = "absent" THEN WalkConfig(chain, i + 1)
    ELSE IF chain[i].kind = "invalid" THEN DefaultConfig
    ELSE chain[i]

\* The walk from the far end of the chain: the farthest config file wins.
RECURSIVE WalkConfigUp(_, _)
WalkConfigUp(chain, i) ==
    IF i < 1 THEN DefaultConfig
    ELSE IF chain[i].kind = "absent" THEN WalkConfigUp(chain, i - 1)
    ELSE IF chain[i].kind = "invalid" THEN DefaultConfig
    ELSE chain[i]
GetProjectConfigFarthest(chain) == WalkConfigUp(chain, Len(chain))

\* A resolver that keeps the config it resolved first and returns it ever after.
GetProjectConfigCached(chain) == IF config.kind # "absent" THEN config ELSE WalkConfig(chain, 1)

GetProjectConfig(chain) == WalkConfig(chain, 1)

\* Path.cwd().name
ProjectName == <<"P", "r", "o", "j">>

----------------------------------------------------------------------------
(* str.format with the keyword arguments title, timestamp, project, content. *)

FieldNames == {"title", "timestamp", "project", "content"}

FirstClose(t) ==
    IF \E j \in 2..Len(t) : t[j] = "}"
    THEN CHOOSE j \in 2..Len(t) : t[j] = "}" /\ \A k \in 2..(j - 1) : t[k] # "}"
    ELSE 0

RECURSIVE ReplaceAll(_, _, _)
ReplaceAll(s, pat, rep) ==
    IF Len(s) < Len(pat) THEN s
    ELSE IF SubSeq(s, 1, Len(pat)) = pat
         THEN rep \o ReplaceAll(SubSeq(s, Len(pat) + 1, Len(s)), pat, rep)
    ELSE <<s[1]>> \o ReplaceAll(Tail(s), pat, rep)

\* Rendering by four str.replace calls: it never raises and rescans what it put in.
FormatByReplace(t, kw) ==
    [ok |-> TRUE,
     out |-> ReplaceAll(ReplaceAll(ReplaceAll(ReplaceAll(t,
                 <<"{", "content", "}">>, kw["content"]),
                 <<"{", "title", "}">>, kw["title"]),
                 <<"{", "timestamp", "}">>, kw["timestamp"]),
                 <<"{", "project", "}">>, kw["project"]),
     err |-> ""]

\* [ok, out, err]: the formatted text, or the exception str.format raises.
RECURSIVE Format(_, _)
Format(t, kw) ==
    LET Raise(e) == [ok |-> FALSE, out |-> <<>>, err |-> e]
        Emit(piece, rest) ==
            LET r == Format(rest, kw)
            IN  IF r.ok THEN [ok |-> TRUE, out |-> piece \o r.out, err |-> ""] ELSE r
    IN  IF t = <<>> THEN [ok |-> TRUE, out |-> <<>>, err |-> ""]
        ELSE IF t[1] = "{" THEN
            IF Len(t) >= 2 /\ t[2] = "{" THEN Emit(<<"{">>, SubSeq(t, 3, Len(t)))
            ELSE LET j == FirstClose(t)
                     name == SubSeq(t, 2, j - 1)
                 IN  IF j = 0 \/ (\E k \in 2..(j - 1) : t[k] = "{") THEN Raise("ValueError")
                     ELSE IF name = <<>> THEN Raise("IndexError")
                     ELSE IF Len(name) = 1 /\ name[1] \in FieldNames
                          THEN Emit(kw[name[1]], SubSeq(t, j + 1, Len(t)))
                     ELSE Raise("KeyError")
        ELSE IF t[1] = "}" THEN
            IF Len(t) >= 2 /\ t[2] = "}" THEN Emit(<<"}">>, SubSeq(t, 3, Len(t)))
            ELSE Raise("ValueError")
        ELSE Emit(<<t[1]>>, Tail(t))

----------------------------------------------------------------------------
(* Front matter. *)

RECURSIVE Dedup(_)
Dedup(tags) ==
    IF tags = <<>> THEN <<>>
    ELSE LET front == Dedup(SubSeq(tags, 1, Len(tags) - 1))
             last == tags[Len(tags)]
         IN  IF \E i \in 1..Len(front) : front[i] = last THEN front ELSE Append(front, last)

\* A generator that drops repeated tags.
GenerateFrontmatterDedup(tags, t) ==
    <<"---\n", "created: ">> \o IsoFormat(t) \o <<"\n", "source: claude-code\n", "tags: ">>
    \o ReprList(Dedup(tags)) \o <<"\n", "---\n\n">>

GenerateFrontmatter(tags, t) ==
    <<"---\n", "created: ">> \o IsoFormat(t) \o <<"\n", "source: claude-code\n", "tags: ">>
    \o ReprList(tags) \o <<"\n", "---\n\n">>

RECURSIVE PathText(_)
PathText(p) == IF p = <<>> THEN <<"<vault>">> ELSE PathText(Parent(p)) \o <<"/">> \o p[Len(p)]

----------------------------------------------------------------------------
(* The tool implementations.  Each gives the outcome of one call in the     *)
(* current state: whether it raised, the text returned or the exception's   *)
(* message, the filesystem it leaves, and the last clock value it read.     *)

Outcome(raised, text, ds, fs, c, t) ==
    [raised |-> raised, text |-> text, dirs |-> ds, files |-> fs, config |-> c, now |-> t]

\* A fallback that gives an unknown content type a titled template.
SelectTemplateTitled(c, content_type) ==
    IF c.tkind = "map" /\ content_type \in DOMAIN c.templates
    THEN c.templates[content_type]
    ELSE <<"## ">> \o Field("title") \o <<"\n\n">> \o Field("content")

\* config.get("templates", {}).get(content_type, "{content}") of a config object
\* whose templates is a mapping or missing
SelectTemplate(c, content_type) ==
    IF c.tkind = "map" /\ content_type \in DOMAIN c.templates
    THEN c.templates[content_type]
    ELSE Field("content")

\* A sanitizer that also lets the dot through.
SafeTitleKeepsDots(title) ==
    RStrip(SelectSeq(title, LAMBDA c : IsAlnum(c) \/ c \in {" ", "-", "_", "."}))

\* title with the characters other than alphanumerics, ' ', '-' and '_' dropped, rstripped
SafeTitle(title) ==
    LET Keep(c) == IsAlnum(c) \/ c \in {" ", "-", "_"}
        Kept == {title[i] : i \in {k \in 1..Len(title) : Keep(title[k])}}
    IN  RStrip(Filter(title, Kept))

\* t1, t2, t3: the clock as read for the template, for the filename and for the front matter
SaveToObsidian(content, title, content_type, tags, t1, t2, t3) ==
    LET c == GetProjectConfig(cfg)
        Raise(e, ds, t) ==
            Outcome(TRUE, <<"Failed to save to Obsidian: ", e>>, ds, files, c, t)
    IN  IF c.kind # "object" \/ c.tkind = "null" THEN Raise("AttributeError", dirs, t1)
        ELSE
        LET template == SelectTemplate(c, content_type)
            formatted == Format(template,
                                [n \in FieldNames |->
                                    CASE n = "title" -> Str(title)
                                      [] n = "timestamp" -> StrftimeHuman(t1)
                                      [] n = "project" -> ProjectName
                                      [] n = "content" -> Str(content)])
        IN  IF ~formatted.ok THEN Raise(formatted.err, dirs, t1)
            ELSE IF ~title.some THEN Raise("TypeError", dirs, t1)
            ELSE
            LET filename == StrftimePrefix(t2) \o <<"_">> \o SafeTitle(title.v) \o MD
                project_folder == IF c.folder.some THEN c.folder.v ELSE ClaudeCode
                target_path == Join(<<>>, project_folder)
                file_path == Join(target_path, filename)
                all_tags == <<<<"claude-code">>, <<content_type>>, Lower(ProjectName)>> \o tags
            IN  IF MkdirRaises(files, target_path) THEN Raise("FileExistsError", dirs, t2)
                ELSE IF OpenRaises(MkdirDirs(dirs, target_path), file_path)
                     THEN Raise("IsADirectoryError", MkdirDirs(dirs, target_path), t3)
                ELSE Outcome(FALSE,
                             <<"Successfully saved ", content_type, " '">> \o title.v
                             \o <<"' to ">> \o PathText(file_path) \o <<"\nProject: ">>
                             \o ProjectName \o <<"\nFolder: ">> \o project_folder,
                             MkdirDirs(dirs, target_path),
                             WriteFile(files, file_path,
                                       GenerateFrontmatter(all_tags, t3) \o formatted.out),
                             c, t3)

SaveClaudeResponse(content, filename, tags, t) ==
    LET Raise(e, at) == Outcome(TRUE, <<"Failed to save response: ", e>>, dirs, files, config, at)
    IN  IF ~filename.some THEN Raise("AttributeError", now)
        ELSE
        LET name == IF EndsWith(filename.v, MD) THEN filename.v ELSE filename.v \o MD
            file_path == Join(<<>>, name)
        IN  IF ~content.some THEN Raise("TypeError", t)
            ELSE IF OpenRaises(dirs, file_path)
                 THEN Raise(IF file_path \in dirs THEN "IsADirectoryError"
                            ELSE "FileNotFoundError", t)
            ELSE Outcome(FALSE, <<"Successfully saved response to ">> \o PathText(file_path),
                         dirs,
                         WriteFile(files, file_path, GenerateFrontmatter(tags, t) \o content.v),
                         config, t)

Min(a, b) == IF a <= b THEN a ELSE b

\* What search_path.rglob("*.md") yields, as a set: every entry below search_path
\* whose name ends in ".md".
RglobMd(search_path) ==
    {p \in dirs \cup DOMAIN files :
        /\ Len(p) > Len(search_path)
        /\ SubSeq(p, 1, Len(search_path)) = search_path
        /\ EndsWith(p[Len(p)], MD)}

\* The orders in which the filesystem may yield them.
Orders(S) ==
    {o \in [1..Cardinality(S) -> S] : \A i, j \in 1..Cardinality(S) : o[i] = o[j] => i = j}

RECURSIVE JoinLines(_)
JoinLines(ps) ==
    IF ps = <<>> THEN <<>>
    ELSE Tail(Tail(PathText(ps[1]))) \o (IF Len(ps) > 1 THEN <<"\n">> ELSE <<>>)
         \o JoinLines(Tail(ps))

\* order: the order in which rglob yields the matches
ListVaultFiles(folder, limit, order) ==
    LET search_path == IF folder # <<>> THEN Join(<<>>, folder) ELSE <<>>
    IN  IF search_path \notin dirs \cup DOMAIN files
        THEN Outcome(FALSE, <<"Folder not found: ">> \o PathText(search_path),
                     dirs, files, config, now)
        ELSE LET listed == SubSeq(order, 1, Min(IF limit < 0 THEN 0 ELSE limit, Len(order)))
             IN  Outcome(FALSE,
                         <<"Files in vault (", Digits[Len(listed) + 1], " found):\n">>
                         \o (IF listed = <<>> THEN <<"No markdown files found">>
                             ELSE JoinLines(listed)),
                         dirs, files, config, now)

\* Path.suffix == ".md"
HasMdSuffix(name) == EndsWith(name, MD) /\ Len(name) > Len(MD)

\* build_tree: the connectors stand for the box-drawing strings of the source,
\* "|-- " and "+-- " for the branch of an entry, "|   " and "    " for a level above it.
RECURSIVE BuildTree(_, _, _, _)
RECURSIVE BuildItems(_, _, _, _)
BuildTree(path, current_depth, prefix, max_depth) ==
    IF current_depth > max_depth THEN <<>>
    ELSE IF path \notin dirs THEN <<>>
    ELSE BuildItems(Sorted({p \in dirs \cup DOMAIN files :
                               /\ Len(p) = Len(path) + 1
                               /\ Parent(p) = path
                               /\ (p \in dirs \/ HasMdSuffix(p[Len(p)]))}),
                    current_depth, prefix, max_depth)
BuildItems(items, current_depth, prefix, max_depth) ==
    IF items = <<>> THEN <<>>
    ELSE LET item == items[1]
             is_last == Len(items) = 1
         IN  prefix \o <<IF is_last THEN "+-- " ELSE "|-- ">> \o item[Len(item)] \o <<"\n">>
             \o (IF item \in dirs /\ current_depth < max_depth
                 THEN BuildTree(item, current_depth + 1,
                                prefix \o <<IF is_last THEN "    " ELSE "|   ">>, max_depth)
                 ELSE <<>>)
             \o BuildItems(Tail(items), current_depth, prefix, max_depth)

GetVaultStructure(max_depth) ==
    Outcome(FALSE, <<"Vault structure:\n", "<vault>", "/\n">> \o BuildTree(<<>>, 0, <<>>, max_depth),
            dirs, files, config, now)

----------------------------------------------------------------------------
(* handle_call_tool. *)

\* A request: the tool name and request.params.arguments (hasArgs is FALSE when
\* the request carries no arguments object at all).
Request(name, hasArgs, args) == [name |-> name, hasArgs |-> hasArgs, args |-> args]

\* arguments.get(key) and arguments.get(key, default)
Get(args, key) == IF key \in DOMAIN args THEN Some(args[key]) ELSE None
GetOr(args, key, default) == IF key \in DOMAIN args THEN args[key] ELSE default

ToolNames == {"save_claude_response", "list_vault_files", "get_vault_structure",
              "save_to_obsidian"}

\* The body of the try block: the outcome of the tool the name selects.
Dispatch(req, t1, t2, t3, order) ==
    IF req.name \notin ToolNames
    THEN Outcome(TRUE, <<"Unknown tool: ", req.name>>, dirs, files, config, now)
    ELSE IF ~req.hasArgs
    THEN Outcome(TRUE, <<"AttributeError">>, dirs, files, config, now)
    ELSE CASE req.name = "save_claude_response" ->
                SaveClaudeResponse(Get(req.args, "content"), Get(req.args, "filename"),
                                   GetOr(req.args, "tags", <<<<"claude-code">>>>), t1)
           [] req.name = "list_vault_files" ->
                ListVaultFiles(GetOr(req.args, "folder", <<>>), GetOr(req.args, "limit", 50),
                               order)
           [] req.name = "get_vault_structure" ->
                GetVaultStructure(GetOr(req.args, "max_depth", 3))
           [] req.name = "save_to_obsidian" ->
                SaveToObsidian(Get(req.args, "content"), Get(req.args, "title"),
                               GetOr(req.args, "type", "note"), GetOr(req.args, "tags", <<>>),
                               t1, t2, t3)

\* handle_call_tool without its except clause: the exception leaves the handler.
CallToolResultUncaught(o) ==
    [isError |-> o.raised, text |-> o.text, propagated |-> o.raised]

\* What handle_call_tool does with the outcome: an exception becomes an isError
\* result; propagated says whether the exception leaves the handler.
CallToolResult(o) ==
    [isError |-> o.raised,
     text |-> IF o.raised THEN <<"Error: ">> \o o.text ELSE o.text,
     propagated |-> FALSE]

\* The orders rglob may yield for a list_vault_files request; <<>> for the other tools.
RglobOrders(req) ==
    IF req.name = "list_vault_files" /\ req.hasArgs
    THEN Orders(RglobMd(LET folder == GetOr(req.args, "folder", <<>>)
                        IN  IF folder # <<>> THEN Join(<<>>, folder) ELSE <<>>))
    ELSE {<<>>}

\* The clock values a call may read: a save_to_obsidian reads it three times, a
\* save_claude_response once, the other tools never; the clock never runs backwards.
ClockReads(req, t1, t2, t3) ==
    /\ now <= t1 /\ t1 <= t2 /\ t2 <= t3 /\ t3 <= MaxTime
    /\ req.name # "save_to_obsidian" => t2 = t1 /\ t3 = t1
    /\ req.name \notin {"save_to_obsidian", "save_claude_response"} => t1 = now

HandleCallTool(req, t1, t2, t3, order) ==
    /\ serverUp
    /\ Len(errs) < MaxCalls
    /\ ClockReads(req, t1, t2, t3)
    /\ order \in RglobOrders(req)
    /\ \E o \in {Dispatch(req, t1, t2, t3, order)} : \E r \in {CallToolResult(o)} :
        /\ dirs' = o.dirs
        /\ files' = o.files
        /\ now' = o.now
        /\ config' = o.config
        /\ request' = req
        /\ result' = [isError |-> r.isError, text |-> r.text]
        /\ errs' = Append(errs, r.isError)
        /\ serverUp' = ~r.propagated
        /\ UNCHANGED cfg

\* One tool call of the runtime, its request drawn from reqs.
CallTool(reqs) ==
    \E req \in reqs : \E t1, t2, t3 \in 0..MaxTime : \E order \in RglobOrders(req) :
        HandleCallTool(req, t1, t2, t3, order)

----------------------------------------------------------------------------
(* The environment. *)

\* The user removes the vault directory with everything in it.
RemoveVault ==
    /\ <<>> \in dirs
    /\ dirs' = {}
    /\ files' = NoFiles
    /\ UNCHANGED <<cfg, now, errs, serverUp, request, result, config>>

\* The user writes, changes or removes the .claude/obsidian.json of one directory.
EditConfig(choices) ==
    \E i \in DOMAIN cfg : \E c \in choices :
        /\ cfg[i] # c
        /\ cfg' = [cfg EXCEPT ![i] = c]
        /\ UNCHANGED <<dirs, files, now, errs, serverUp, request, result, config>>

----------------------------------------------------------------------------
(* The server and its callers. *)

\* The directories of [cwd] + cwd.parents, cwd first.
CwdChain == <<"Proj", "work", "/">>

NoRequest == Request("", FALSE, [k \in {} |-> <<>>])
NoResult == [isError |-> FALSE, text |-> <<>>]

\* The arguments object holding the present ones of the optional values opts.
Args(opts) == [k \in {j \in DOMAIN opts : opts[j].some} |-> opts[k].v]

NoteTemplate == <<"# ">> \o Field("title") \o <<"\n">> \o Field("content")

\* The config files of the runs: none, unreadable, a JSON array, an object with
\* only a folder, an object with only templates, an object whose templates is null.
ConfigChoices ==
    {Absent, Invalid, JsonArray,
     Object(Some(<<"d">>), "missing", NoTemplates),
     Object(None, "map", [t \in {"note"} |-> NoteTemplate]),
     Object(Some(<<"d">>), "null", NoTemplates)}

UrlPrefix == "obsidian://open?vault=X&file="

\* The tool calls of the runs: save_to_obsidian with content or title missing, empty,
\* blank or given; save_claude_response into the root and into a folder d; the two
\* browsing tools; read_obsidian_url; a call without arguments; an unknown tool.
Requests ==
    {Request("save_to_obsidian", TRUE, Args([content |-> c, title |-> Some(<<"T">>)])) :
        c \in {None, Some(<<>>), Some(<<" ">>), Some(<<"x">>)}}
    \cup {Request("save_to_obsidian", TRUE, Args([content |-> Some(<<"x">>), title |-> t])) :
            t \in {None, Some(<<>>), Some(<<" ">>)}}
    \cup {Request("save_claude_response", TRUE,
                  Args([content |-> Some(<<"x">>), filename |-> f])) :
            f \in {None, Some(<<"n">>), Some(<<"d", "/", "n">>)}}
    \cup {Request("list_vault_files", TRUE, Args([folder |-> f])) :
            f \in {None, Some(<<"d">>)}}
    \cup {Request("read_obsidian_url", TRUE, Args([url |-> Some(<<UrlPrefix>> \o u)])) :
            u \in {<<"n">>, <<"d", "%2F", "n">>}}
    \cup {Request("get_vault_structure", TRUE, Args([max_depth |-> None])),
          Request("save_to_obsidian", FALSE, Args([content |-> None])),
          Request("bogus", TRUE, Args([content |-> None]))}

\* After construction: _get_vault_path has made the vault root; nothing is served yet.
Start(chains) ==
    /\ dirs = {<<>>}
    /\ files = NoFiles
    /\ cfg \in chains
    /\ now = 0
    /\ errs = <<>>
    /\ serverUp = TRUE
    /\ request = NoRequest
    /\ result = NoResult
    /\ config = Absent

AllChains == [DOMAIN CwdChain -> ConfigChoices]

\* The chains with a config file, one of choices, in the working directory only.
CwdOnly(choices) == {[i \in DOMAIN CwdChain |-> IF i = 1 THEN c ELSE Absent] : c \in choices}

Init == Start(CwdOnly(ConfigChoices))

Next ==
    \/ CallTool(Requests)
    \/ RemoveVault

Spec == Init /\ [][Next]_vars

\* The first call the server handles.
FirstCall(reqs) == errs = <<>> /\ CallTool(reqs)

\* Config resolution: any config files along the chain, edited at will, and one save.
ConfigRequests ==
    {Request("save_to_obsidian", TRUE,
             Args([content |-> Some(<<"x">>), title |-> Some(<<"T">>), type |-> ty])) :
        ty \in {None, Some("report")}}

InitConfig == Start(AllChains)

NextConfig ==
    \/ FirstCall(ConfigRequests)
    \/ EditConfig(ConfigChoices)

SpecConfig == InitConfig /\ [][NextConfig]_vars

\* All the str of at most n elements of alphabet.
StrsUpTo(alphabet, n) == UNION {[1..k -> alphabet] : k \in 0..n}

\* Filename derivation: one save_to_obsidian of each title over these characters,
\* under the default config or a config with a nested folder.
TitleChars == {"a", "7", " ", "\t", "-", "_", "/", "."}

FilenameRequests ==
    {Request("save_to_obsidian", TRUE, Args([content |-> Some(<<"x">>), title |-> Some(t)])) :
        t \in StrsUpTo(TitleChars, MaxTitleLen)}

NestedFolder == <<"d", "/", "e">>

InitFilename == Start(CwdOnly({Absent, Object(Some(NestedFolder), "missing", NoTemplates)}))

NextFilename == FirstCall(FilenameRequests)

SpecFilename == InitFilename /\ [][NextFilename]_vars

\* Passthrough rendering: one save of each content over these elements, as a note or
\* a report, under configs with and without a template for the type.
ContentTokens == {"{", "}", "title", "x"}

PassthroughRequests ==
    {Request("save_to_obsidian", TRUE,
             Args([content |-> Some(c), title |-> Some(<<"T">>), type |-> ty])) :
        c \in StrsUpTo(ContentTokens, MaxContentLen), ty \in {None, Some("report")}}

InitPassthrough ==
    Start(CwdOnly({Absent,
                   Object(None, "map", NoTemplates),
                   Object(Some(<<"d">>), "missing", NoTemplates),
                   Object(None, "map", [t \in {"note"} |-> NoteTemplate])}))

NextPassthrough == FirstCall(PassthroughRequests)

SpecPassthrough == InitPassthrough /\ [][NextPassthrough]_vars

\* Template rendering: one report saved under each report template over these elements.
TemplateTokens == {"{", "}", "title", "content", "author", "# "}

TemplateRequests ==
    {Request("save_to_obsidian", TRUE,
             Args([content |-> Some(<<"x">>), title |-> Some(<<"T">>), type |-> Some("report")]))}

InitTemplate ==
    Start(CwdOnly({Object(None, "map", [t \in {"report"} |-> tpl]) :
                    tpl \in StrsUpTo(TemplateTokens, MaxTemplateLen)}))

NextTemplate == FirstCall(TemplateRequests)

SpecTemplate == InitTemplate /\ [][NextTemplate]_vars

\* Front matter: one save by either tool of each tag list over these tags, with a
\* plain body and with a body that starts with a front-matter block of its own.
Tags == {<<"a">>, <<"b">>, <<"claude-code">>}
Bodies == {<<"x">>, <<"---\n", "tags: [z]\n", "---\n\n", "y">>}

FrontmatterRequests ==
    {Request(tool, TRUE,
             Args([content |-> Some(b), title |-> Some(<<"T">>), filename |-> Some(<<"n">>),
                   tags |-> tg])) :
        tool \in {"save_to_obsidian", "save_claude_response"}, b \in Bodies,
        tg \in {None} \cup {Some(l) : l \in StrsUpTo(Tags, MaxTags)}}

InitFrontmatter == Start(CwdOnly({Absent}))

NextFrontmatter == FirstCall(FrontmatterRequests)

SpecFrontmatter == InitFrontmatter /\ [][NextFrontmatter]_vars

----------------------------------------------------------------------------
(* Claims about the tool calls, checked under Spec. *)

\* This step is handle_call_tool serving req.
Served(req) == Len(errs') = Len(errs) + 1 /\ request' = req

ValidSaves ==
    {Request("save_to_obsidian", TRUE, Args([content |-> Some(<<"x">>), title |-> Some(<<"T">>)])),
     Request("save_claude_response", TRUE,
             Args([content |-> Some(<<"x">>), filename |-> Some(<<"n">>)]))}

\* C1: every tool call returns a result instead of raising: the server stays up, a
\* failure is a result flagged isError whose text is "Error: " and the exception's
\* message, a success is not flagged, and after a failed call the server still
\* accepts a call (here: each valid save).
C1_ErrorsAreResults ==
    /\ serverUp
    /\ errs # <<>> =>
        /\ result.isError = errs[Len(errs)]
        /\ result.text # <<>>
        /\ result.isError <=> result.text[1] = "Error: "
        /\ result.isError => Len(result.text) > 1
    /\ (errs # <<>> /\ errs[Len(errs)] /\ Len(errs) < MaxCalls) =>
        \A req \in ValidSaves : ENABLED HandleCallTool(req, now, now, now, <<>>)

\* C1 witness: a call failed and the next call was served successfully.
C1_Witness ==
    /\ Len(errs) = 2 /\ errs[1] /\ ~errs[2]
    /\ request \in ValidSaves
    /\ result.text[1] \in {"Successfully saved ", "Successfully saved response to "}

----------------------------------------------------------------------------
(* The vault URL resolver of the specification (section 4.6): the server of *)
(* the source has no such tool.                                            *)

PercentDecode(s) ==
    [i \in 1..Len(s) |-> CASE s[i] = "%2F" -> "/" [] s[i] = "%20" -> " " [] OTHER -> s[i]]

\* The path below the vault root an obsidian URL names: the decoded file parameter,
\* segment by segment, with ".md" appended when the last segment has no extension.
ResolveUrl(url) ==
    LET segs == Segments(PercentDecode(Tail(url)), <<>>)
        last == segs[Len(segs)]
    IN  IF \E i \in 1..Len(last) : last[i] = "." THEN segs
        ELSE [segs EXCEPT ![Len(segs)] = last \o MD]

\* C2: read_obsidian_url with an obsidian URL returns the text of the file the URL
\* resolves to when it exists, and a not-found error (never "Unknown tool") when
\* it does not.
C2_ReadUrlResolves ==
    [][\A req \in Requests :
        (req.name = "read_obsidian_url" /\ Served(req)) =>
            LET p == ResolveUrl(req.args.url)
            IN  IF p \in DOMAIN files
                THEN ~result'.isError /\ EndsWith(result'.text, files[p])
                ELSE result'.isError /\ result'.text[2] # "Unknown tool: "]_vars

\* A str that is missing, empty or only whitespace
Blank(x) == ~x.some \/ \A i \in 1..Len(x.v) : x.v[i] \in Whitespace

\* C3: save_to_obsidian with content or title missing, empty or whitespace-only
\* returns an error result and writes no file and creates no folder.
C3_BlankSaveRejected ==
    [][\A req \in Requests :
        (/\ req.name = "save_to_obsidian" /\ req.hasArgs
         /\ (Blank(Get(req.args, "content")) \/ Blank(Get(req.args, "title")))
         /\ Served(req)) =>
            result'.isError /\ files' = files /\ dirs' = dirs]_vars

\* C6: a save with valid arguments issued while the vault root is absent creates
\* the root and succeeds (under a config the save can use).
C6_RootCreatedOnAccess ==
    [][\A req \in ValidSaves :
        (/\ <<>> \notin dirs
         /\ GetProjectConfig(cfg).kind = "object"
         /\ GetProjectConfig(cfg).tkind # "null"
         /\ Served(req)) =>
            <<>> \in dirs' /\ ~result'.isError]_vars

----------------------------------------------------------------------------
(* Claims about config resolution, checked under SpecConfig. *)

\* The config file of the nearest directory of the chain that has one, if any.
HasConfig(chain) == {i \in DOMAIN chain : chain[i].kind # "absent"}
Nearest(chain) == CHOOSE i \in HasConfig(chain) : \A j \in HasConfig(chain) : i <= j

\* C4: a save resolves the config to what the nearest .claude/obsidian.json of the
\* chain holds, whatever farther ancestors hold (the default when that file cannot
\* be loaded), and to the default when no directory has one; a successful save
\* reports the folder of that config.
C4_NearestConfigWins ==
    [][\A req \in ConfigRequests :
        Served(req) =>
            LET expected ==
                    IF HasConfig(cfg) = {} THEN DefaultConfig
                    ELSE IF cfg[Nearest(cfg)].kind = "invalid" THEN DefaultConfig
                    ELSE cfg[Nearest(cfg)]
            IN  /\ config' = expected
                /\ ~result'.isError =>
                    EndsWith(result'.text,
                             <<"\nFolder: ">> \o (IF expected.folder.some THEN expected.folder.v
                                                  ELSE ClaudeCode))]_vars

\* C4 witness: a save used the parent directory's config although the grandparent
\* holds a different one, and wrote into the parent config's folder.
C4_Witness ==
    /\ errs = <<FALSE>>
    /\ cfg[1] = Absent /\ cfg[2].kind = "object" /\ cfg[3].kind = "object"
    /\ cfg[2].folder # cfg[3].folder
    /\ config = cfg[2]
    /\ cfg[2].folder.some /\ Join(<<>>, cfg[2].folder.v) \in dirs

\* A config file that is no JSON object of a folder string and a templates mapping
Malformed(c) == c.kind \in {"invalid", "array"} \/ (c.kind = "object" /\ c.tkind = "null")

\* C5: when the nearest config file is malformed, the config resolves to the default
\* and a valid save succeeds, writing into the default folder.
C5_MalformedConfigIsDefault ==
    [][\A req \in ConfigRequests :
        (HasConfig(cfg) # {} /\ Malformed(cfg[Nearest(cfg)]) /\ Served(req)) =>
            /\ config' = DefaultConfig
            /\ ~result'.isError
            /\ \E p \in DOMAIN files' : Parent(p) = <<ClaudeCode>>]_vars

----------------------------------------------------------------------------
(* Claim about the filename, checked under SpecFilename. *)

SafeChar(c) == IsAlnum(c) \/ c \in {" ", "-", "_"}

\* stem is title with the unsafe characters removed and trailing whitespace trimmed
IsStemOf(stem, title) ==
    LET kept == SelectSeq(title, SafeChar)
    IN  /\ Len(stem) <= Len(kept)
        /\ stem = SubSeq(kept, 1, Len(stem))
        /\ \A i \in (Len(stem) + 1)..Len(kept) : kept[i] \in Whitespace
        /\ stem # <<>> => stem[Len(stem)] \notin Whitespace

PrefixLen == Len(StrftimePrefix(0))

\* C7: every title is saved, and the one file written is named
\* <YYYYMMDD_HHMMSS>_<stem>.md with stem the sanitized title; the name holds no path
\* separator and no dot but that of ".md", and the file is a direct child of the
\* config's folder.
C7_FilenameIsSafe ==
    \A req \in FilenameRequests :
        (errs # <<>> /\ request = req) =>
            /\ ~result.isError
            /\ \E p \in DOMAIN files : \E t \in 0..MaxTime :
                LET name == p[Len(p)]
                    folder == IF cfg[1] = Absent THEN <<ClaudeCode>> ELSE <<<<"d">>, <<"e">>>>
                IN  /\ DOMAIN files = {p}
                    /\ Parent(p) = folder
                    /\ Len(name) >= PrefixLen + 1 + Len(MD)
                    /\ SubSeq(name, 1, PrefixLen) = StrftimePrefix(t)
                    /\ name[PrefixLen + 1] = "_"
                    /\ EndsWith(name, MD)
                    /\ IsStemOf(SubSeq(name, PrefixLen + 2, Len(name) - Len(MD)),
                                req.args.title)
                    /\ \A i \in 1..(Len(name) - Len(MD)) : name[i] \notin {"/", "."}

\* C7 witness: a title of a path separator and a dot was saved as <prefix>_.md.
C7_Witness ==
    /\ errs = <<FALSE>>
    /\ request.args.title = <<"/", ".">>
    /\ \E p \in DOMAIN files : p[Len(p)] = StrftimePrefix(0) \o <<"_">> \o MD

----------------------------------------------------------------------------
(* Claims about rendering, checked under SpecPassthrough and SpecTemplate. *)

\* The text of a written note after its front matter: what follows the first "---\n\n".
BodyOf(text) ==
    LET end == CHOOSE k \in 1..Len(text) :
                   text[k] = "---\n\n" /\ \A j \in 1..(k - 1) : text[j] # "---\n\n"
    IN  SubSeq(text, end + 1, Len(text))

\* The config a chain with a file in the working directory only resolves to
Resolved(chain) == IF chain[1] = Absent THEN DefaultConfig ELSE chain[1]

\* C8: when the config has no template for the requested type, the save succeeds
\* and the body of the file written equals the request's content exactly.
C8_PassthroughIsIdentity ==
    \A req \in PassthroughRequests :
        (/\ errs # <<>> /\ request = req
         /\ LET c == Resolved(cfg)
            IN  c.tkind # "map" \/ GetOr(req.args, "type", "note") \notin DOMAIN c.templates) =>
            /\ ~result.isError
            /\ \E p \in DOMAIN files :
                DOMAIN files = {p} /\ BodyOf(files[p]) = req.args.content

\* C8 witness: a content that is itself a placeholder was saved verbatim as a report
\* under a config whose templates mapping is empty.
C8_Witness ==
    /\ errs = <<FALSE>>
    /\ cfg[1] = Object(None, "map", NoTemplates)
    /\ request.args.content = Field("title")
    /\ "type" \in DOMAIN request.args
    /\ \E p \in DOMAIN files : BodyOf(files[p]) = Field("title")

Braces == {"{", "}"}
BraceFree(s) == \A i \in 1..Len(s) : s[i] \notin Braces

\* t is pre + "{name}" + post at i, with no brace in pre or post
SingleFieldAt(t, i) ==
    /\ i + 2 <= Len(t)
    /\ t[i] = "{" /\ t[i + 1] \notin Braces /\ t[i + 2] = "}"
    /\ BraceFree(SubSeq(t, 1, i - 1)) /\ BraceFree(SubSeq(t, i + 3, Len(t)))

\* t has a replacement field "{name}" with a name that is none of the four, its "{"
\* not doubled: an even number of "{" stand right before it.
HasUnknownField(t) ==
    \E i \in 1..(Len(t) - 2) :
        /\ t[i] = "{" /\ t[i + 1] \notin Braces \cup FieldNames /\ t[i + 2] = "}"
        /\ \E k \in 0..(i - 1) :
            /\ k % 2 = 0
            /\ \A j \in 1..k : t[i - j] = "{"
            /\ (i - k - 1 >= 1 => t[i - k - 1] # "{")

\* The values the runs of SpecTemplate substitute
ValueOf(name) == IF name = "title" THEN <<"T">> ELSE <<"x">>

ReportTemplate == cfg[1].templates["report"]

\* C9 as claimed: a template with one placeholder that is none of the four is saved
\* with the placeholder left verbatim.
C9_UnknownLeftVerbatim ==
    errs # <<>> =>
        \A i \in 1..Len(ReportTemplate) :
            (SingleFieldAt(ReportTemplate, i) /\ ReportTemplate[i + 1] \notin FieldNames) =>
                /\ ~result.isError
                /\ \E p \in DOMAIN files : BodyOf(files[p]) = ReportTemplate

\* C9 amended: a template without braces is written as it is; a template with one
\* placeholder, of the four, is written with the value in its place; a template with
\* a placeholder that is none of the four makes the save fail with an error result,
\* and nothing is written or created.
C9_UnknownPlaceholderFails ==
    errs # <<>> =>
        /\ BraceFree(ReportTemplate) =>
            /\ ~result.isError
            /\ \E p \in DOMAIN files : BodyOf(files[p]) = ReportTemplate
        /\ \A i \in 1..Len(ReportTemplate) :
            (SingleFieldAt(ReportTemplate, i) /\ ReportTemplate[i + 1] \in FieldNames) =>
                /\ ~result.isError
                /\ \E p \in DOMAIN files :
                    BodyOf(files[p]) = SubSeq(ReportTemplate, 1, i - 1)
                                       \o ValueOf(ReportTemplate[i + 1])
                                       \o SubSeq(ReportTemplate, i + 3, Len(ReportTemplate))
        /\ HasUnknownField(ReportTemplate) =>
            /\ result.isError
            /\ result.text[3] \in {"KeyError", "ValueError", "IndexError"}
            /\ files = NoFiles /\ dirs = {<<>>}

\* C9 witness: the save under the template "# {author}" failed and wrote nothing.
C9_Witness ==
    /\ errs = <<TRUE>>
    /\ ReportTemplate = <<"# ", "{", "author", "}">>
    /\ result.text = <<"Error: ", "Failed to save to Obsidian: ", "KeyError">>
    /\ files = NoFiles

----------------------------------------------------------------------------
(* Claim about the front matter, checked under SpecFrontmatter. *)

RECURSIVE ItemStart(_, _)
\* Where the i-th item of the list representation of tags starts: after "[" and
\* after the items before it, each with its two quotes and its ", ".
ItemStart(tags, i) == IF i = 1 THEN 2 ELSE ItemStart(tags, i - 1) + Len(tags[i - 1]) + 3

\* r is the literal list of tags, in order: ['t1', 't2', ...]
IsListOf(r, tags) ==
    LET n == Len(tags)
    IN  /\ r # <<>> /\ r[1] = "[" /\ r[Len(r)] = "]"
        /\ Len(r) = IF n = 0 THEN 2 ELSE ItemStart(tags, n) + Len(tags[n]) + 2
        /\ \A i \in 1..n :
            LET at == ItemStart(tags, i)
            IN  /\ r[at] = "'"
                /\ SubSeq(r, at + 1, at + Len(tags[i])) = tags[i]
                /\ r[at + Len(tags[i]) + 1] = "'"
                /\ i < n => r[at + Len(tags[i]) + 2] = ", "

\* The tags a request hands to the generator
TagsGiven(req) ==
    IF req.name = "save_to_obsidian"
    THEN <<<<"claude-code">>, <<"note">>, <<"p", "r", "o", "j">>>> \o GetOr(req.args, "tags", <<>>)
    ELSE GetOr(req.args, "tags", <<<<"claude-code">>>>)

\* C10: the file a save writes is the front-matter block (---, created, source:
\* claude-code, tags, ---, blank line) followed by the body unchanged, and the tags
\* line is the literal list of the tags given to the generator, in order, repeats kept.
C10_FrontmatterThenBody ==
    \A req \in FrontmatterRequests :
        (errs # <<>> /\ request = req) =>
            /\ ~result.isError
            /\ \E p \in DOMAIN files : \E t \in 0..MaxTime :
                LET text == files[p]
                    head == <<"---\n", "created: ">> \o IsoFormat(t)
                            \o <<"\n", "source: claude-code\n", "tags: ">>
                    body == req.args.content
                    list == SubSeq(text, Len(head) + 1, Len(text) - Len(body) - 2)
                IN  /\ DOMAIN files = {p}
                    /\ Len(text) >= Len(head) + 2 + 2 + Len(body)
                    /\ SubSeq(text, 1, Len(head)) = head
                    /\ IsListOf(list, TagsGiven(req))
                    /\ SubSeq(text, Len(text) - Len(body) - 1, Len(text))
                       = <<"\n", "---\n\n">> \o body

\* C10 witness: save_claude_response wrote a body that starts with a front-matter
\* block of its own after the generated block, whose tags line repeats the tag b.
C10_Witness ==
    /\ errs = <<FALSE>>
    /\ request.name = "save_claude_response"
    /\ <<<<"n", ".", "m", "d">>>> \in DOMAIN files
    /\ files[<<<<"n", ".", "m", "d">>>>] =
        <<"---\n", "created: ", "2024-01-01T00:00:", "0", "0", "\n", "source: claude-code\n",
          "tags: ", "[", "'", "b", "'", ", ", "'", "b", "'", "]", "\n", "---\n\n",
          "---\n", "tags: [z]\n", "---\n\n", "y">>

----------------------------------------------------------------------------
(* Browsing: one list_vault_files or get_vault_structure call on a vault    *)
(* that already holds notes and folders when the server starts.            *)

NoteName == <<"n", ".", "m", "d">>
MdDirName == <<"d", ".", "m", "d">>

\* The folder a nested k levels deep: a/a/.../a
Chain(k) == [i \in 1..k |-> <<"a">>]

\* The vaults of the runs: the folder chain a/a/... to some depth, optionally a
\* folder T and a folder named d.md beside it, a note n.md in any of the folders,
\* and a file x that is no note in the root.
VaultTrees ==
    UNION {UNION {{[dirs |-> {Chain(j) : j \in 0..k} \cup extra,
                    files |-> [q \in F |-> <<"x">>]] :
                        F \in SUBSET ({Chain(j) \o <<NoteName>> : j \in 0..k}
                                      \cup {<<<<"x">>>>}
                                      \cup {d \o <<NoteName>> : d \in extra \cap {<<MdDirName>>}})} :
                    extra \in SUBSET {<<<<"T">>>>, <<MdDirName>>}} :
            k \in 0..MaxDepth}

BrowseRequests ==
    {Request("get_vault_structure", TRUE, Args([max_depth |-> d])) :
        d \in {None} \cup {Some(n) : n \in -1..(MaxDepth - 1)}}
    \cup {Request("list_vault_files", TRUE, Args([folder |-> f, limit |-> l])) :
            f \in {None, Some(<<"a">>), Some(MdDirName), Some(<<"z">>)},
            l \in {None, Some(0), Some(1), Some(2)}}

InitBrowse ==
    /\ \E tree \in VaultTrees : dirs = tree.dirs /\ files = tree.files
    /\ cfg \in CwdOnly({Absent})
    /\ now = 0
    /\ errs = <<>>
    /\ serverUp = TRUE
    /\ request = NoRequest
    /\ result = NoResult
    /\ config = Absent

NextBrowse == FirstCall(BrowseRequests)

SpecBrowse == InitBrowse /\ [][NextBrowse]_vars

----------------------------------------------------------------------------
(* Claims about browsing, checked under SpecBrowse. *)

\* The pieces of s between the separators sep; an empty last piece is dropped.
RECURSIVE SplitOn(_, _, _)
SplitOn(s, sep, cur) ==
    IF s = <<>> THEN (IF cur = <<>> THEN <<>> ELSE <<cur>>)
    ELSE IF s[1] = sep THEN <<cur>> \o SplitOn(Tail(s), sep, <<>>)
    ELSE SplitOn(Tail(s), sep, Append(cur, s[1]))

\* The lines of a list_vault_files result text after its header
LinesOf(text) ==
    IF Len(text) = 4 /\ text[4] = "No markdown files found" THEN <<>>
    ELSE SplitOn(SubSeq(text, 4, Len(text)), "\n", <<>>)
ListedLines == LinesOf(result.text)

\* The path below the vault root a listed line names
LinePath(line) == SplitOn(line, "/", <<>>)

Under(p, folder) == Len(p) > Len(folder) /\ SubSeq(p, 1, Len(folder)) = folder

\* C11: list_vault_files on an existing folder lists only .md files under the
\* folder, each once and relative to the vault root, and as many as
\* min(limit, number of such files).
C11_ListsOnlyNoteFiles ==
    \A req \in BrowseRequests :
        (/\ errs # <<>> /\ request = req /\ req.name = "list_vault_files"
         /\ Join(<<>>, GetOr(req.args, "folder", <<>>)) \in dirs) =>
            LET folder == Join(<<>>, GetOr(req.args, "folder", <<>>))
                limit == GetOr(req.args, "limit", 50)
                notes == {p \in DOMAIN files : Under(p, folder) /\ EndsWith(p[Len(p)], MD)}
                lines == ListedLines
            IN  /\ ~result.isError
                /\ \A i \in 1..Len(lines) :
                    /\ lines[i] # <<>> /\ lines[i][1] # "/"
                    /\ LinePath(lines[i]) \in notes
                    /\ \A j \in 1..Len(lines) : lines[j] = lines[i] => j = i
                /\ Len(lines) = Min(limit, Cardinality(notes))
                /\ Len(lines) <= limit
                /\ result.text[2] = Digits[Len(lines) + 1]

\* The lines of a get_vault_structure result after its two header elements
TreeLines == SplitOn(SubSeq(result.text, 4, Len(result.text)), "\n", <<>>)

IndentUnits == {"|   ", "    "}
Connectors == {"|-- ", "+-- "}

\* How many 4-character indentation units a line starts with
RECURSIVE Indent(_)
Indent(line) == IF line # <<>> /\ line[1] \in IndentUnits THEN 1 + Indent(Tail(line)) ELSE 0

\* A line is its indentation, one connector, and a name
WellFormed(line) ==
    /\ Len(line) >= Indent(line) + 2
    /\ line[Indent(line) + 1] \in Connectors
    /\ \A i \in (Indent(line) + 2)..Len(line) : line[i] \notin IndentUnits \cup Connectors
EntryName(line) == SubSeq(line, Indent(line) + 2, Len(line))

\* The line above line k that is one unit less indented, 0 when there is none
Above(lines, k) ==
    LET up == {j \in 1..(k - 1) : Indent(lines[j]) = Indent(lines[k]) - 1}
    IN  IF up = {} THEN 0 ELSE CHOOSE j \in up : \A i \in up : i <= j

\* The entry line k stands for: its name below the entry of the line above it
RECURSIVE EntryPath(_, _)
EntryPath(lines, k) ==
    IF Indent(lines[k]) = 0 THEN <<EntryName(lines[k])>>
    ELSE IF Above(lines, k) = 0 THEN <<>>
    ELSE EntryPath(lines, Above(lines, k)) \o <<EntryName(lines[k])>>

\* Every line of the tree is well formed, is indented by one unit per level of
\* nesting of an entry that exists in the vault, at most maxLevel levels below the
\* root, and comes after its siblings of smaller name.
TreeWithin(lines, maxLevel) ==
    \A k \in 1..Len(lines) :
        LET p == EntryPath(lines, k)
        IN  /\ WellFormed(lines[k])
            /\ p \in dirs \cup DOMAIN files
            /\ Len(p) = Indent(lines[k]) + 1
            /\ Len(p) <= maxLevel
            /\ \A j \in 1..(k - 1) :
                LET q == EntryPath(lines, j)
                IN  Parent(q) = Parent(p) => Less(q[Len(q)], p[Len(p)])

\* C12 as claimed: the tree holds no entry more than max_depth levels below the
\* vault root (the root's children being level 1), each line is indented by 4
\* characters per level of nesting, and siblings are in alphabetical order.
C12_TreeWithinMaxDepth ==
    \A req \in BrowseRequests :
        (errs # <<>> /\ request = req /\ req.name = "get_vault_structure") =>
            /\ ~result.isError
            /\ TreeWithin(TreeLines, GetOr(req.args, "max_depth", 3))

\* C12 amended: the tree holds exactly the folders and .md files at most
\* max_depth + 1 levels below the vault root (the root's children being level 1),
\* each once; each line is indented by 4 characters per level of nesting; siblings
\* are in the order of their names, character by character in code point order.
C12_TreeWithinMaxDepthPlusOne ==
    \A req \in BrowseRequests :
        (errs # <<>> /\ request = req /\ req.name = "get_vault_structure") =>
            LET max_depth == GetOr(req.args, "max_depth", 3)
                lines == TreeLines
                shown == {p \in dirs \cup DOMAIN files :
                            /\ 1 <= Len(p) /\ Len(p) <= max_depth + 1
                            /\ (p \in dirs \/ HasMdSuffix(p[Len(p)]))}
            IN  /\ ~result.isError
                /\ TreeWithin(lines, max_depth + 1)
                /\ {EntryPath(lines, k) : k \in 1..Len(lines)} = shown
                /\ Len(lines) = Cardinality(shown)

\* C12 witness: with max_depth 1 the tree shows the folder a/a, two levels below
\* the root, and not the note a/a/n.md inside it; its first line is the folder T.
C12_Witness ==
    /\ errs = <<FALSE>>
    /\ request.name = "get_vault_structure"
    /\ GetOr(request.args, "max_depth", 3) = 1
    /\ Chain(2) \o <<NoteName>> \in DOMAIN files
    /\ <<<<"T">>>> \in dirs
    /\ \E k \in 1..Len(TreeLines) : EntryPath(TreeLines, k) = Chain(2)
    /\ \A k \in 1..Len(TreeLines) : Indent(TreeLines[k]) <= 1
    /\ EntryPath(TreeLines, 1) = <<<<"T">>>>

----------------------------------------------------------------------------
(* Saves after saves: calls of the two save tools in any order, onto the    *)
(* same and onto different paths, under the default config and under a      *)
(* config with the folder d.                                               *)

WriteRequests ==
    {Request("save_to_obsidian", TRUE, Args([content |-> Some(c), title |-> Some(t)])) :
        c \in {<<"x">>, <<"y">>}, t \in {<<"T">>, <<"U">>}}
    \cup {Request("save_claude_response", TRUE, Args([content |-> Some(c), filename |-> Some(f)])) :
            c \in {<<"x">>, <<"y">>}, f \in {<<"n">>, <<"d", "/", "n">>}}

InitWrites == Start(CwdOnly({Absent, Object(Some(<<"d">>), "missing", NoTemplates)}))

NextWrites == CallTool(WriteRequests)

SpecWrites == InitWrites /\ [][NextWrites]_vars

----------------------------------------------------------------------------
(* Claims about saves after saves, checked under SpecWrites. *)

\* The set of paths a list_vault_files result text lists
Listed(text) == {LinePath(LinesOf(text)[i]) : i \in 1..Len(LinesOf(text))}

\* C13: after a successful save_to_obsidian (the titles are of safe characters),
\* list_vault_files over the whole vault, with its default limit and in whatever
\* order the traversal yields, shows what it showed before and exactly one entry more.
C13_SaveAddsOneEntry ==
    [][\A req \in WriteRequests :
        (req.name = "save_to_obsidian" /\ Served(req) /\ ~result'.isError) =>
            \A ob \in Orders(RglobMd(<<>>)) : \A oa \in Orders(RglobMd(<<>>)') :
                LET before == Listed(ListVaultFiles(<<>>, 50, ob).text)
                    after == Listed(ListVaultFiles(<<>>, 50, oa)'.text)
                IN  before \subseteq after /\ Cardinality(after) = Cardinality(before) + 1]_vars

\* The folder a save request of SpecWrites writes into
TargetFolder(req) ==
    IF req.name = "save_to_obsidian"
    THEN Join(<<>>, IF cfg[1] = Absent THEN ClaudeCode ELSE cfg[1].folder.v)
    ELSE Parent(Join(<<>>, req.args.filename))

\* text is the whole of one write made at second t with the body content, and
\* nothing else: one front-matter block, created at t, and then the body
WholeWrite(text, content, t) ==
    /\ Len(text) > 5
    /\ text[1] = "---\n" /\ text[2] = "created: " /\ SubSeq(text, 3, 5) = IsoFormat(t)
    /\ Cardinality({k \in 1..Len(text) : text[k] = "---\n"}) = 1
    /\ Cardinality({k \in 1..Len(text) : text[k] = "---\n\n"}) = 1
    /\ BodyOf(text) = content

\* C14: in every order of saves, a successful save leaves at one path of its
\* target folder exactly its own full content, whatever the path held before, and
\* leaves every other file as it was; a failed save changes no file; and a save
\* whose target folder already exists, made by an earlier save or not, succeeds.
C14_LastWriteWins ==
    [][\A req \in WriteRequests :
        Served(req) =>
            LET folder == TargetFolder(req)
            IN  /\ folder \in dirs => ~result'.isError
                /\ result'.isError => files' = files
                /\ ~result'.isError =>
                    \E p \in DOMAIN files' :
                        /\ Parent(p) = folder
                        /\ DOMAIN files' = DOMAIN files \cup {p}
                        /\ \A q \in DOMAIN files \ {p} : files'[q] = files[q]
                        /\ WholeWrite(files'[p], req.args.content, now')]_vars

\* C14 witness: two saves succeeded and the vault holds one file, so the second
\* wrote the path of the first; the file is the second save's whole content, and
\* its folder d was made by the first save.
C14_Witness ==
    /\ errs = <<FALSE, FALSE>>
    /\ request.name = "save_to_obsidian"
    /\ \E p \in DOMAIN files :
        /\ DOMAIN files = {p}
        /\ Parent(p) = <<<<"d">>>>
        /\ WholeWrite(files[p], request.args.content, now)

----------------------------------------------------------------------------
(* Config files that change between requests: saves of a note or a report,  *)
(* and between them the user writing, changing or removing the config file  *)
(* of any directory of the chain.                                          *)

ReloadChoices ==
    {Absent,
     Object(Some(<<"d">>), "map", [t \in {"note"} |-> NoteTemplate]),
     Object(Some(<<"e">>), "missing", NoTemplates)}

InitReload == Start(CwdOnly(ReloadChoices))

NextReload ==
    \/ CallTool(ConfigRequests)
    \/ EditConfig(ReloadChoices)

SpecReload == InitReload /\ [][NextReload]_vars

----------------------------------------------------------------------------
(* Claim about config reloading, checked under SpecReload. *)

\* body is content x rendered under the template config c has for the type, or x
\* itself when c has none
RenderedUnder(body, c, type) ==
    IF c.tkind = "map" /\ type \in DOMAIN c.templates
    THEN Len(body) > 1 /\ body[1] = c.templates[type][1] /\ body[Len(body)] = "x"
    ELSE body = <<"x">>

\* C15: every save_to_obsidian resolves the config from the config files as they
\* are when it is served, whatever earlier requests resolved: it writes into the
\* folder of that config a note rendered under that config's templates.
C15_ConfigResolvedAfresh ==
    [][\A req \in ConfigRequests :
        Served(req) =>
            LET current == IF HasConfig(cfg) = {} THEN DefaultConfig ELSE cfg[Nearest(cfg)]
                folder == IF current.folder.some THEN current.folder.v ELSE ClaudeCode
            IN  /\ config' = current
                /\ ~result'.isError
                /\ EndsWith(result'.text, <<"\nFolder: ">> \o folder)
                /\ \E p \in DOMAIN files' :
                    /\ Parent(p) = Join(<<>>, folder)
                    /\ files'[p][1] = "---\n" /\ SubSeq(files'[p], 3, 5) = IsoFormat(now')
                    /\ RenderedUnder(BodyOf(files'[p]), current, GetOr(req.args, "type", "note"))]_vars

\* C15 witness: two saves were served, one wrote into the folder d and the other,
\* after the config file of the working directory was changed, into the folder e
\* without d's note template.
C15_Witness ==
    /\ errs = <<FALSE, FALSE>>
    /\ cfg[1] = Object(Some(<<"e">>), "missing", NoTemplates)
    /\ config = cfg[1]
    /\ "type" \notin DOMAIN request.args
    /\ \E p, q \in DOMAIN files :
        /\ Parent(p) = <<<<"d">>>> /\ BodyOf(files[p])[1] = "# "
        /\ Parent(q) = <<<<"e">>>> /\ BodyOf(files[q]) = <<"x">>

----------------------------------------------------------------------------
(* Claim about the built-in default config, checked under SpecConfig. *)

\* template has the placeholder {name}
HasField(template, name) ==
    \E i \in 1..(Len(template) - 2) : SubSeq(template, i, i + 2) = Field(name)

\* C16: when no directory of the chain has a config file, or the nearest one cannot
\* be parsed, the config resolved is the built-in default, the same in both cases:
\* a fixed folder and a template for each of report, review and note, each with the
\* placeholders title, timestamp, project and content.
C16_DefaultHasThreeTemplates ==
    [][\A req \in ConfigRequests :
        (/\ Served(req)
         /\ (HasConfig(cfg) = {} \/ cfg[Nearest(cfg)].kind = "invalid")) =>
            /\ config' = GetProjectConfig(<<>>)
            /\ config'.kind = "object"
            /\ config'.folder = Some(ClaudeCode)
            /\ config'.tkind = "map"
            /\ DOMAIN config'.templates = {"report", "review", "note"}
            /\ \A t \in DOMAIN config'.templates : \A f \in FieldNames :
                HasField(config'.templates[t], f)]_vars
====
